---------------------------- MODULE Spec2Model ----------------------------
(***************************************************************************)
(* Virtual smart home (vshome/main.go): the device registry (Store), the   *)
(* synchronization hub (Hub) with its dispatch loop, the viewer handlers   *)
(* (Hub.HandleWS), the REST PUT handler, and the browser's view of the     *)
(* devices (web/app.js).                                                   *)
(*                                                                         *)
(* Specifications.  Spec and FairSpec: the server with each handler step,  *)
(* Store call and connection write as one step (the runs in which no two   *)
(* writes on a connection overlap).  StoreSpec: the Store called directly, *)
(* with Store.mu and the merge loop of Update step by step.  HubSpec: the  *)
(* server with Store.mu and every connection write as an interval, and the *)
(* outcomes of two writers inside WriteJSON on one connection.             *)
(*                                                                         *)
(* Values.  A Go interface{} value is a record tagged with its type t:     *)
(*   "bool"    b \in BOOLEAN                                               *)
(*   "int"     n \in Int            (Go int / int64)                       *)
(*   "float"   x \in Int, in tenths (float64 42.6 is 426)                  *)
(*   "string"  s a sequence of one-character strings                       *)
(*   "nil"                          (JSON null)                            *)
(*   "object"                       (a decoded JSON object)                *)
(*   "json.Number"  j \in Int, in tenths: the literal in its shortest      *)
(*                  decimal form ("43" is 430, "42.6" is 426)              *)
(*   "ref"     r    a nested map[string]interface{}: Go holds a reference, *)
(*                  the map itself is heap[r]                              *)
(* A state map (map[string]interface{}) is a function from a set of keys.  *)
(***************************************************************************)
EXTENDS Integers, Sequences, FiniteSets, TLC

\* the platform the binary was built for: a float64 to int conversion whose
\* value the int cannot hold is implementation-dependent in Go
VARIABLE build

B(b) == [t |-> "bool", b |-> b]
I(n) == [t |-> "int", n |-> n]
F(tenths) == [t |-> "float", x |-> tenths]
S(chars) == [t |-> "string", s |-> chars]
Nil == [t |-> "nil"]
Obj == [t |-> "object"]
JN(tenths) == [t |-> "json.Number", j |-> tenths]
Ref(r) == [t |-> "ref", r |-> r]

EmptyState == [k \in {} |-> Nil]

(***************************************************************************)
(* Normalization helpers (main.go:106-200).                                *)
(***************************************************************************)
\* Go's int(x) on a float64 truncates toward zero; x is given in tenths.
TruncTenths(x) == IF x >= 0 THEN x \div 10 ELSE -((-x) \div 10)

\* MaxInt stands for the largest Go int (2^63 - 1) and MinInt for the
\* smallest; a float64 of Huge tenths or more is one no int can hold (1e19).
MaxInt == 200000000
MinInt == -MaxInt - 1
Huge == (MaxInt + 1) * 10

Builds == {"amd64", "arm64"}

\* int(x) for a float64 x in tenths: out of the int's range amd64 yields the
\* smallest int (CVTTSD2SQ's indefinite value) and arm64 saturates
IntOfFloat(x) ==
    IF x >= Huge THEN (IF build = "amd64" THEN MinInt ELSE MaxInt)
    ELSE IF x <= -Huge THEN MinInt
    ELSE TruncTenths(x)

clampInt(value, min, max) ==
    IF value < min THEN min ELSE IF value > max THEN max ELSE value

\* value, min and max in tenths
clampFloat(value, min, max) ==
    IF value < min THEN min ELSE IF value > max THEN max ELSE value

\* json.Number.Int64 parses an integer literal in the int64's range only
clampToInt(value, min, max) ==
    CASE value.t = "int" -> clampInt(value.n, min, max)
      [] value.t = "float" -> clampInt(IntOfFloat(value.x + 5), min, max)
      [] value.t = "json.Number" /\ value.j % 10 = 0
            /\ -Huge < value.j /\ value.j < Huge ->
            clampInt(value.j \div 10, min, max)
      [] OTHER -> min

\* clampToFloat as it would be if a value that is no number gave the zero
\* value of float64
clampToFloatOrZero(value, min, max) ==
    CASE value.t = "float" -> clampFloat(value.x, min * 10, max * 10)
      [] value.t = "int" -> clampFloat(value.n * 10, min * 10, max * 10)
      [] value.t = "json.Number" -> clampFloat(value.j, min * 10, max * 10)
      [] OTHER -> 0

\* min, max are whole numbers; the result is a float64 in tenths
clampToFloat(value, min, max) ==
    CASE value.t = "float" -> clampFloat(value.x, min * 10, max * 10)
      [] value.t = "int" -> clampFloat(value.n * 10, min * 10, max * 10)
      [] value.t = "json.Number" -> clampFloat(value.j, min * 10, max * 10)
      [] OTHER -> min * 10

LowerChar(c) ==
    CASE c = "T" -> "t" [] c = "R" -> "r" [] c = "U" -> "u" [] c = "E" -> "e"
      [] c = "O" -> "o" [] c = "N" -> "n" [] c = "F" -> "f"
      [] OTHER -> c

\* strings.EqualFold(a, b) for ASCII strings
EqualFold(a, b) ==
    /\ Len(a) = Len(b)
    /\ \A i \in 1..Len(a) : LowerChar(a[i]) = LowerChar(b[i])

toBool(value) ==
    CASE value.t = "bool" -> value.b
      [] value.t = "string" ->
            \/ EqualFold(value.s, <<"t", "r", "u", "e">>)
            \/ value.s = <<"1">>
            \/ EqualFold(value.s, <<"o", "n">>)
      [] value.t = "int" -> value.n # 0
      [] value.t = "float" -> value.x # 0
      [] OTHER -> FALSE

RECURSIVE TrimLeft(_)
TrimLeft(s) == IF s # <<>> /\ Head(s) = " " THEN TrimLeft(Tail(s)) ELSE s

RECURSIVE TrimRight(_)
TrimRight(s) ==
    IF s # <<>> /\ s[Len(s)] = " " THEN TrimRight(SubSeq(s, 1, Len(s) - 1)) ELSE s

\* strings.TrimSpace
TrimSpace(s) == TrimRight(TrimLeft(s))

BoolKinds == {"toggle", "lock", "sensor", "toaster", "doors", "vacuum"}

normalizeValue(kind, key, value) ==
    CASE kind \in {"blind", "humidifier"} /\ key \in {"position", "level"} ->
            I(clampToInt(value, 0, 100))
      [] kind = "thermostat" /\ key = "temperature" ->
            F(clampToFloat(value, 10, 30))
      [] kind \in BoolKinds /\ key \in {"on", "open", "locked"} ->
            B(toBool(value))
      [] kind \in BoolKinds /\ key = "mode" /\ value.t = "string" ->
            S(TrimSpace(value.s))
      [] OTHER -> value

(***************************************************************************)
(* The registry (main.go:19-104).                                          *)
(***************************************************************************)
copyState(state) == [k \in DOMAIN state |-> state[k]]

Device(id, name, kind, room, state) ==
    [id |-> id, name |-> name, kind |-> kind, room |-> room, state |-> state]


\* Store.List / Store.Get / Store.Update on a registry value
\* [devices |-> map id -> Device, order |-> sequence of ids].
NewStore(devs) ==
    [devices |-> [id \in {devs[i].id : i \in 1..Len(devs)} |->
                    LET d == devs[CHOOSE i \in 1..Len(devs) :
                                    /\ devs[i].id = id
                                    /\ \A j \in (i+1)..Len(devs) : devs[j].id # id]
                    IN  [d EXCEPT !.state = copyState(d.state)]],
     order |-> [i \in 1..Len(devs) |-> devs[i].id]]

\* List as it would be if it ranged over the devices in another order than
\* the one they were loaded in (as a range over the map may)
ListOtherOrder(st) ==
    [i \in 1..Len(st.order) |->
        [st.devices[st.order[Len(st.order) + 1 - i]] EXCEPT !.state = copyState(@)]]

List(st) ==
    [i \in 1..Len(st.order) |->
        [st.devices[st.order[i]] EXCEPT !.state = copyState(@)]]

StoreHas(st, id) == id \in DOMAIN st.devices

Get(st, id) == [st.devices[id] EXCEPT !.state = copyState(@)]

\* the state map after the merge loop of Store.Update (main.go:87-89)
MergeState(kind, old, state) ==
    [k \in (DOMAIN old) \cup (DOMAIN state) |->
        IF k \in DOMAIN state THEN normalizeValue(kind, k, state[k]) ELSE old[k]]

\* the registry after a successful Store.Update(id, state)
StoreUpdate(st, id, state) ==
    [st EXCEPT !.devices[id].state = MergeState(st.devices[id].kind, @, state)]

NoDevice == [id |-> ""]

\* Update as it would be if an unknown id created the device instead of
\* failing
UpdateUpsert(st, id, state) ==
    IF ~StoreHas(st, id)
    THEN [err |-> "",
          store |-> [st EXCEPT !.devices = (id :> Device(id, "", "", "", state)) @@ @],
          device |-> Device(id, "", "", "", state)]
    ELSE [err |-> "", store |-> StoreUpdate(st, id, state),
          device |-> Get(StoreUpdate(st, id, state), id)]

\* Store.Update(id, state): the error, the registry afterwards and the copy
\* of the device it returns
Update(st, id, state) ==
    IF ~StoreHas(st, id)
    THEN [err |-> "device not found", store |-> st, device |-> NoDevice]
    ELSE [err |-> "", store |-> StoreUpdate(st, id, state),
          device |-> Get(StoreUpdate(st, id, state), id)]

(***************************************************************************)
(* Catalog loading (main.go:381-410).  A raw catalog is the decoded        *)
(* sequence of devices; a missing field is the empty string, and a nil     *)
(* state map and an empty one are both the empty function.                 *)
(***************************************************************************)
\* LoadCheck as it would be without the check for an id seen before
RECURSIVE LoadCheckFieldsOnly(_, _, _)
LoadCheckFieldsOnly(raw, i, seen) ==
    IF i > Len(raw) THEN "ok"
    ELSE IF raw[i].id = "" \/ raw[i].name = "" \/ raw[i].kind = ""
         THEN "device missing id, name, or kind"
    ELSE LoadCheckFieldsOnly(raw, i + 1, seen \cup {raw[i].id})

RECURSIVE LoadCheck(_, _, _)
LoadCheck(raw, i, seen) ==
    IF i > Len(raw) THEN "ok"
    ELSE IF raw[i].id = "" \/ raw[i].name = "" \/ raw[i].kind = ""
         THEN "device missing id, name, or kind"
    ELSE IF raw[i].id \in seen THEN "duplicate device id"
    ELSE LoadCheck(raw, i + 1, seen \cup {raw[i].id})

loadDevices(raw) ==
    IF Len(raw) = 0 THEN [err |-> "no devices defined", devices |-> <<>>]
    ELSE IF LoadCheck(raw, 1, {}) # "ok"
         THEN [err |-> LoadCheck(raw, 1, {}), devices |-> <<>>]
    ELSE [err |-> "ok", devices |-> raw]

(***************************************************************************)
(* The catalogs, the viewers, the REST callers and the requests of the     *)
(* model.                                                                  *)
(***************************************************************************)
Blind1(pos) == Device("blind1", "Blind", "blind", "Living", "position" :> pos)
Lamp == Device("lamp", "Lamp", "toggle", "Kitchen", "on" :> B(FALSE))

RawCatalogs ==
    { <<Blind1(I(40)), Lamp>>,
      <<Blind1(I(150)), Lamp>>,
      <<Blind1(I(40)), Blind1(I(60))>>,
      <<Blind1(I(40)), [Lamp EXCEPT !.kind = ""]>>,
      <<[Blind1(I(40)) EXCEPT !.name = ""], Lamp>>,
      <<Blind1(I(40)), [Lamp EXCEPT !.id = ""]>> }

Viewers == {"v1", "v2"}
\* goroutines that call the Store directly
Callers == {"a", "b"}
Idle == [pc |-> "idle"]
\* Viewers are interchangeable: v2 connects after v1.
Before(v) == IF v = "v2" THEN {"v1"} ELSE {}
RestCallers == {"r1"}
NoOne == "-"

\* Inbound viewer messages (WSSetMessage), as ReadJSON decodes them: a JSON
\* number arrives as a float64.
SetMsg(id, state) == [type |-> "set", id |-> id, state |-> state]

Inbound ==
    { SetMsg("blind1", "position" :> F(426)),
      SetMsg("lamp", "on" :> S(<<"O", "n">>)),
      SetMsg("ghost", "on" :> B(TRUE)),
      SetMsg("", "on" :> B(TRUE)),
      SetMsg("lamp", EmptyState),
      [type |-> "ping", id |-> "lamp", state |-> EmptyState] }

\* PUT /api/devices/{id} requests: the id of the path and the decoded payload
\* (json is FALSE when the body does not decode)
PutReq(id, json, state) == [id |-> id, json |-> json, state |-> state]

PutReqs ==
    { PutReq("blind1", TRUE, "position" :> F(-50)),
      PutReq("lamp", TRUE, "on" :> B(TRUE)),
      PutReq("ghost", TRUE, "on" :> B(TRUE)),
      PutReq("lamp", TRUE, EmptyState),
      PutReq("lamp", FALSE, EmptyState) }

MaxRequests == 2
BroadcastCap == 32

(***************************************************************************)
(* State.                                                                  *)
(*   started    main got past loadDevices (otherwise log.Fatalf)           *)
(*   store      the registry                                               *)
(*   clients    Hub.clients                                                *)
(*   broadcast  Hub.broadcast, the buffered channel                        *)
(*   hpc, hmsg, htodo, hcur                                                *)
(*              the dispatch loop: "recv" at the channel receive, "fanout" *)
(*              inside broadcastMessage holding Hub.mu; the message being  *)
(*              fanned out, the clients the range loop has still to visit  *)
(*              and the client whose WriteJSON it is blocked in            *)
(*   vpc, vsnap, vupd                                                      *)
(*              each viewer handler's position ("none": no connection yet, *)
(*              "list", "send", "read", "enqueue", "done"), the List it    *)
(*              took and the device it is about to enqueue                 *)
(*   conn       the server side of each viewer connection                  *)
(*   peer       the viewer end: "ok", "stuck" (reads nothing, so a write   *)
(*              to it blocks) or "gone" (a write to it fails)              *)
(*   recv       the messages written to each connection, in order          *)
(*   rpc, rupd, rresp                                                      *)
(*              each REST caller's PUT handler and its last response       *)
(*   requests   how many requests were received so far                     *)
(* History:                                                                *)
(*   commits    the devices returned by the successful Store.Update calls, *)
(*              in commit order; a message carries the index of its commit *)
(*              as seq, and a state message the number of commits its List *)
(*              saw                                                        *)
(*   fanned     the seq of every notification whose fan-out has finished   *)
(* For the direct callers of the Store (List, Get, Update):                *)
(*   heap       the nested maps, by reference                              *)
(*   held       the calls that returned so far, each with what it was      *)
(*              given and the snapshot it was handed                       *)
(*   mu         Store.mu: "free" or the caller that holds it for writing   *)
(*   call       each caller's Update in progress: the id, the request, the *)
(*              keys the merge loop has still to write and the state it    *)
(*              found                                                      *)
(***************************************************************************)
VARIABLES started, store, clients, broadcast, hpc, hmsg, htodo, hcur,
          vpc, vsnap, vupd, conn, peer, recv, rpc, rupd, rresp, requests,
          commits, fanned, heap, held, mu, call, storeMu, writing, dropped,
          enqueued

vars == <<build, started, store, clients, broadcast, hpc, hmsg, htodo, hcur,
          vpc, vsnap, vupd, conn, peer, recv, rpc, rupd, rresp, requests,
          commits, fanned, heap, held, mu, call, storeMu, writing, dropped,
          enqueued>>

\* what a direct caller of the Store works with
apiVars == <<build, heap, held, mu, call>>

hubVars == <<clients, broadcast, hpc, hmsg, htodo, hcur, fanned>>
viewerVars == <<vpc, vsnap, vupd, conn, peer, recv>>
restVars == <<rpc, rupd, rresp>>

\* the goroutines that call the Store in the server: one per viewer
\* connection (HandleWS) and one per REST request
Goroutines == Viewers \cup RestCallers

\* the two that call WriteJSON on a viewer's connection: the viewer's own
\* HandleWS and the dispatch loop
Writers == {"handler", "hub"}

\* storeMu: how each goroutine of the server holds Store.mu ("none", "RLock",
\* "Lock"); writing: where each writer is with WriteJSON on each connection
\* ("out", "in", or, when two are inside together, "first" and "second" by
\* the order they came in); dropped: the viewers broadcastMessage removed
\* (history); enqueued: the notifications sent on the broadcast channel, in
\* the order of the sends (history).
lockVars == <<storeMu, writing, dropped, enqueued>>

NoLocks ==
    /\ storeMu = [g \in Goroutines |-> "none"]
    /\ writing = [v \in Viewers |-> [w \in Writers |-> "out"]]
    /\ dropped = {}
    /\ enqueued = <<>>

\* WSMessage values; seq is history, not sent on the wire.
NoMsg == [type |-> "none"]
StateMsg(devices, seq) == [type |-> "state", devices |-> devices, seq |-> seq]
UpdateMsg(device, seq) == [type |-> "update", device |-> device, seq |-> seq]
ErrorMsg(text) == [type |-> "error", error |-> text]

Init ==
    /\ build \in Builds
    /\ heap = <<>>
    /\ held = <<>>
    /\ mu = "free"
    /\ call = [c \in Callers |-> Idle]
    /\ \E raw \in RawCatalogs :
          LET loaded == loadDevices(raw)
          IN  /\ started = (loaded.err = "ok")
              /\ store = NewStore(loaded.devices)
    /\ clients = {}
    /\ broadcast = <<>>
    /\ hpc = "recv"
    /\ hmsg = NoMsg
    /\ htodo = {}
    /\ hcur = NoOne
    /\ vpc = [v \in Viewers |-> "none"]
    /\ vsnap = [v \in Viewers |-> NoMsg]
    /\ vupd = [v \in Viewers |-> NoMsg]
    /\ conn = [v \in Viewers |-> "none"]
    /\ peer = [v \in Viewers |-> "ok"]
    /\ recv = [v \in Viewers |-> <<>>]
    /\ rpc = [r \in RestCallers |-> "idle"]
    /\ rupd = [r \in RestCallers |-> NoMsg]
    /\ rresp = [r \in RestCallers |->
                  [status |-> 0, error |-> "", device |-> NoDevice]]
    /\ requests = 0
    /\ commits = <<>>
    /\ fanned = <<>>
    /\ NoLocks

\* Hub.mu is held by the dispatch loop for the whole of broadcastMessage;
\* register and unregister hold it for one step.
HubMuFree == hpc = "recv"

\* The outcome of conn.WriteJSON on viewer v's connection: a write on a closed
\* connection or to a peer that is gone fails, a write to a peer that reads
\* nothing blocks (no write deadline is ever set).
WriteOk(v) == conn[v] = "open" /\ peer[v] = "ok"
WriteBlocks(v) == conn[v] = "open" /\ peer[v] = "stuck"

(***************************************************************************)
(* Hub.HandleWS (main.go:256-300), Hub.register, Hub.unregister.           *)
(***************************************************************************)
\* h.clients[conn] = struct{}{} under Hub.mu
register(v) ==
    /\ HubMuFree
    /\ clients' = clients \cup {v}

\* delete(h.clients, conn) and conn.Close(): the client leaves the viewer set and
\* its connection is over (what it carried is forgotten)
CloseAndDelete(v) ==
    /\ clients' = clients \ {v}
    /\ conn' = [conn EXCEPT ![v] = "closed"]
    /\ peer' = [peer EXCEPT ![v] = "gone"]
    /\ recv' = [recv EXCEPT ![v] = <<>>]

\* Hub.unregister as it would be without the delete: the connection is
\* closed and the client stays in the map
unregisterCloseOnly(v) ==
    /\ HubMuFree
    /\ conn' = [conn EXCEPT ![v] = "closed"]
    /\ peer' = [peer EXCEPT ![v] = "gone"]
    /\ recv' = [recv EXCEPT ![v] = <<>>]
    /\ UNCHANGED clients

\* Hub.unregister, under Hub.mu
unregister(v) ==
    /\ HubMuFree
    /\ CloseAndDelete(v)

\* The Upgrade and h.register(conn).  (A failed Upgrade returns before it
\* touches the hub.)
Connect(v) ==
    /\ started
    /\ vpc[v] = "none"
    /\ \A u \in Before(v) : vpc[u] # "none"
    /\ conn' = [conn EXCEPT ![v] = "open"]
    /\ register(v)
    /\ vpc' = [vpc EXCEPT ![v] = "list"]
    /\ UNCHANGED <<started, lockVars, apiVars, store, broadcast, hpc, hmsg,
                   htodo, hcur, fanned,
                   vsnap, vupd, peer, recv, restVars, requests, commits>>

\* initial := WSMessage{Type: "state", Devices: h.store.List()}
TakeSnapshot(v) ==
    /\ vpc[v] = "list"
    /\ vsnap' = [vsnap EXCEPT ![v] = StateMsg(List(store), Len(commits))]
    /\ vpc' = [vpc EXCEPT ![v] = "send"]
    /\ UNCHANGED <<started, lockVars, apiVars, store, hubVars, vupd, conn,
                   peer, recv, restVars,
                   requests, commits>>

\* conn.WriteJSON(initial); if it fails the handler returns, which runs the
\* deferred unregister
SendInitial(v) ==
    /\ vpc[v] = "send"
    /\ ~WriteBlocks(v)
    /\ IF WriteOk(v)
       THEN /\ recv' = [recv EXCEPT ![v] = Append(@, vsnap[v])]
            /\ vpc' = [vpc EXCEPT ![v] = "read"]
            /\ UNCHANGED <<clients, conn, peer>>
       ELSE /\ unregister(v)
            /\ vpc' = [vpc EXCEPT ![v] = "done"]
    /\ vsnap' = [vsnap EXCEPT ![v] = NoMsg]
    /\ UNCHANGED <<started, lockVars, apiVars, store, broadcast, hpc, hmsg,
                   htodo, hcur, fanned,
                   vupd, restVars, requests, commits>>

\* conn.ReadJSON fails (peer closed, connection closed, malformed frame or
\* read deadline): the handler returns, which runs the deferred unregister
ReadError(v) ==
    /\ vpc[v] = "read"
    /\ unregister(v)
    /\ vpc' = [vpc EXCEPT ![v] = "done"]
    /\ UNCHANGED <<started, lockVars, apiVars, store, broadcast, hpc, hmsg,
                   htodo, hcur, fanned,
                   vsnap, vupd, restVars, requests, commits>>

\* ReplyError as it would be if the handler returned after the reply (a return
\* in place of the continue), which runs the deferred unregister
ReplyErrorThenReturn(v, text) ==
    /\ ~WriteBlocks(v)
    /\ HubMuFree
    /\ recv' = [recv EXCEPT ![v] =
                  IF WriteOk(v) THEN Append(@, ErrorMsg(text)) ELSE @]
    /\ clients' = clients \ {v}
    /\ conn' = [conn EXCEPT ![v] = "closed"]
    /\ vpc' = [vpc EXCEPT ![v] = "done"]
    /\ UNCHANGED <<started, lockVars, apiVars, store, broadcast, hpc, hmsg,
                   htodo, hcur,
                   fanned, vsnap, vupd, peer, restVars, commits>>

\* ReplyError as it would be if the error went to every client of the hub
ReplyErrorToAll(v, text) ==
    /\ ~WriteBlocks(v)
    /\ recv' = [u \in Viewers |->
                  IF WriteOk(u) /\ (u = v \/ u \in clients)
                  THEN Append(recv[u], ErrorMsg(text)) ELSE recv[u]]
    /\ UNCHANGED <<started, lockVars, apiVars, store, hubVars, vpc, vsnap,
                   vupd, conn, peer,
                   restVars, commits>>

\* the error reply of the read loop: _ = conn.WriteJSON(WSMessage{Type: "error"})
ReplyError(v, text) ==
    /\ ~WriteBlocks(v)
    /\ recv' = [recv EXCEPT ![v] =
                  IF WriteOk(v) THEN Append(@, ErrorMsg(text)) ELSE @]
    /\ UNCHANGED <<started, lockVars, apiVars, store, hubVars, vpc, vsnap,
                   vupd, conn, peer,
                   restVars, commits>>

\* the commit of a successful Store.Update: the registry changes and the
\* returned device is the next commit of the history
Commit(res) ==
    /\ store' = res.store
    /\ commits' = Append(commits, res.device)

\* one iteration of the read loop up to the enqueue (main.go:278-297)
HandleMessage(v, m) ==
    /\ vpc[v] = "read"
    /\ conn[v] = "open"
    /\ peer[v] # "gone"
    /\ requests < MaxRequests
    /\ requests' = requests + 1
    /\ IF m.type # "set" THEN ReplyError(v, "unsupported message type")
       ELSE IF m.id = "" THEN ReplyError(v, "missing device id")
       ELSE IF Update(store, m.id, m.state).err # ""
            THEN ReplyError(v, Update(store, m.id, m.state).err)
       ELSE /\ Commit(Update(store, m.id, m.state))
            /\ vupd' = [vupd EXCEPT ![v] =
                          UpdateMsg(Update(store, m.id, m.state).device,
                                    Len(commits) + 1)]
            /\ vpc' = [vpc EXCEPT ![v] = "enqueue"]
            /\ UNCHANGED <<started, lockVars, apiVars, hubVars, vsnap, conn, peer, recv, restVars>>

\* h.broadcast <- updated
Enqueue(v) ==
    /\ vpc[v] = "enqueue"
    /\ Len(broadcast) < BroadcastCap
    /\ broadcast' = Append(broadcast, vupd[v])
    /\ enqueued' = Append(enqueued, vupd[v].seq)
    /\ vupd' = [vupd EXCEPT ![v] = NoMsg]
    /\ vpc' = [vpc EXCEPT ![v] = "read"]
    /\ UNCHANGED <<started, storeMu, writing, dropped, apiVars, store,
                   clients, hpc, hmsg, htodo, hcur, fanned,
                   vsnap, conn, peer, recv, restVars, requests, commits>>

(***************************************************************************)
(* The viewer end of a connection.                                         *)
(***************************************************************************)
PeerStuck(v) ==
    /\ conn[v] = "open"
    /\ peer[v] = "ok"
    /\ peer' = [peer EXCEPT ![v] = "stuck"]
    /\ UNCHANGED <<started, lockVars, apiVars, store, hubVars, vpc, vsnap,
                   vupd, conn, recv,
                   restVars, requests, commits>>

PeerGone(v) ==
    /\ conn[v] = "open"
    /\ peer[v] = "ok"
    /\ peer' = [peer EXCEPT ![v] = "gone"]
    /\ UNCHANGED <<started, lockVars, apiVars, store, hubVars, vpc, vsnap,
                   vupd, conn, recv,
                   restVars, requests, commits>>

(***************************************************************************)
(* PUT /api/devices/{id} (main.go:347-365).                                *)
(***************************************************************************)
Respond(r, status, body) ==
    /\ rresp' = [rresp EXCEPT ![r] =
                    [status |-> status, error |-> body, device |-> NoDevice]]
    /\ UNCHANGED <<started, lockVars, apiVars, store, hubVars, viewerVars, rpc, rupd, commits>>

Put(r, q) ==
    /\ started
    /\ rpc[r] = "idle"
    /\ requests < MaxRequests
    /\ requests' = requests + 1
    /\ IF ~q.json THEN Respond(r, 400, "invalid json")
       ELSE IF DOMAIN q.state = {} THEN Respond(r, 400, "missing state")
       ELSE IF Update(store, q.id, q.state).err # ""
            THEN Respond(r, 404, Update(store, q.id, q.state).err)
       ELSE /\ Commit(Update(store, q.id, q.state))
            /\ rupd' = [rupd EXCEPT ![r] =
                          UpdateMsg(Update(store, q.id, q.state).device,
                                    Len(commits) + 1)]
            /\ rpc' = [rpc EXCEPT ![r] = "enqueue"]
            /\ UNCHANGED <<started, lockVars, apiVars, hubVars, viewerVars, rresp>>

\* hub.broadcast <- updated; writeJSON(w, http.StatusOK, updated)
PutEnqueue(r) ==
    /\ rpc[r] = "enqueue"
    /\ Len(broadcast) < BroadcastCap
    /\ broadcast' = Append(broadcast, rupd[r])
    /\ enqueued' = Append(enqueued, rupd[r].seq)
    /\ rresp' = [rresp EXCEPT ![r] =
                    [status |-> 200, error |-> "", device |-> rupd[r].device]]
    /\ rupd' = [rupd EXCEPT ![r] = NoMsg]
    /\ rpc' = [rpc EXCEPT ![r] = "idle"]
    /\ UNCHANGED <<started, storeMu, writing, dropped, apiVars, store,
                   clients, hpc, hmsg, htodo, hcur, fanned,
                   viewerVars, requests, commits>>

(***************************************************************************)
(* Hub.Run and Hub.broadcastMessage (main.go:238-254).                     *)
(***************************************************************************)
\* the channel receive, message := WSMessage{Type: "update", Device: device},
\* and h.mu.Lock()
RunReceive ==
    /\ hpc = "recv"
    /\ broadcast # <<>>
    /\ broadcast' = Tail(broadcast)
    /\ hmsg' = Head(broadcast)
    /\ hpc' = "fanout"
    /\ htodo' = clients
    /\ hcur' = NoOne
    /\ UNCHANGED <<started, lockVars, apiVars, store, clients, fanned,
                   viewerVars, restVars,
                   requests, commits>>

\* FanoutWrite as it would be if a failed write ended the range loop (a
\* return in place of dropping the client and going on)
FanoutWriteReturnsOnError(c) ==
    /\ hpc = "fanout"
    /\ c \in htodo
    /\ hcur \in {NoOne, c}
    /\ IF WriteBlocks(c)
       THEN /\ hcur = NoOne
            /\ hcur' = c
            /\ UNCHANGED <<clients, htodo, recv, conn, peer>>
       ELSE /\ hcur' = NoOne
            /\ IF WriteOk(c)
               THEN /\ recv' = [recv EXCEPT ![c] = Append(@, hmsg)]
                    /\ htodo' = htodo \ {c}
                    /\ UNCHANGED <<clients, conn, peer>>
               ELSE /\ CloseAndDelete(c)
                    /\ htodo' = {}
    /\ UNCHANGED <<started, lockVars, apiVars, store, broadcast, hpc, hmsg,
                   fanned, vpc, vsnap,
                   vupd, restVars, requests, commits>>

\* one iteration of the range loop, on the client c the map iteration yields:
\* the write blocks, succeeds, or fails and drops the client
FanoutWrite(c) ==
    /\ hpc = "fanout"
    /\ c \in htodo
    /\ hcur \in {NoOne, c}
    /\ IF WriteBlocks(c)
       THEN /\ hcur = NoOne
            /\ hcur' = c
            /\ UNCHANGED <<clients, htodo, recv, conn, peer>>
       ELSE /\ hcur' = NoOne
            /\ htodo' = htodo \ {c}
            /\ IF WriteOk(c)
               THEN /\ recv' = [recv EXCEPT ![c] = Append(@, hmsg)]
                    /\ UNCHANGED <<clients, conn, peer>>
               ELSE CloseAndDelete(c)
    /\ UNCHANGED <<started, lockVars, apiVars, store, broadcast, hpc, hmsg,
                   fanned, vpc, vsnap,
                   vupd, restVars, requests, commits>>

\* the range loop has no client left: h.mu.Unlock() and back to the receive
FanoutDone ==
    /\ hpc = "fanout"
    /\ htodo = {}
    /\ hpc' = "recv"
    /\ hmsg' = NoMsg
    /\ fanned' = Append(fanned, hmsg.seq)
    /\ UNCHANGED <<started, lockVars, apiVars, store, clients, broadcast,
                   htodo, hcur, viewerVars,
                   restVars, requests, commits>>

HandlerStep(v) == TakeSnapshot(v) \/ SendInitial(v) \/ Enqueue(v)

RunStep == RunReceive \/ (\E c \in Viewers : FanoutWrite(c)) \/ FanoutDone

Next ==
    \/ \E v \in Viewers : Connect(v)
    \/ \E v \in Viewers : TakeSnapshot(v)
    \/ \E v \in Viewers : SendInitial(v)
    \/ \E v \in Viewers : ReadError(v)
    \/ \E v \in Viewers, m \in Inbound : HandleMessage(v, m)
    \/ \E v \in Viewers : Enqueue(v)
    \/ \E v \in Viewers : PeerStuck(v)
    \/ \E v \in Viewers : PeerGone(v)
    \/ \E r \in RestCallers, q \in PutReqs : Put(r, q)
    \/ \E r \in RestCallers : PutEnqueue(r)
    \/ RunReceive
    \/ \E c \in Viewers : FanoutWrite(c)
    \/ FanoutDone

Spec == Init /\ [][Next]_vars

\* The Go scheduler runs every goroutine that can take a step: the dispatch
\* loop, the handlers' own steps and the PUT handler's enqueue.  What the
\* viewers and callers send, and when, is not fair.
FairSpec ==
    /\ Spec
    /\ WF_vars(RunStep)
    /\ \A v \in Viewers : WF_vars(HandlerStep(v))
    /\ \A r \in RestCallers : WF_vars(PutEnqueue(r))

(***************************************************************************)
(* The Store called directly (main.go:40-104): List, Get and Update on a   *)
(* registry built from a catalog of one device per rule, by callers that   *)
(* keep what they are handed.                                              *)
(***************************************************************************)
Refs == {1, 2}

\* ref 1 is the nested map the catalog holds under blind1's schedule, ref 2
\* one a caller passes in an update
StoreCatalog ==
    << Device("blind1", "Blind", "blind", "Living",
              ("position" :> I(40)) @@ ("schedule" :> Ref(1))),
       Device("thermo", "Thermostat", "thermostat", "Hall",
              "temperature" :> F(210)),
       Device("lamp", "Lamp", "toggle", "Kitchen",
              ("on" :> B(FALSE)) @@ ("mode" :> S(<<"e", "c", "o">>))) >>

\* what a caller may give for a key
Vals ==
    { I(150), I(-5), I(43), I(0), I(1), I(21),
      F(1500), F(-50), F(426), F(424), F(425), F(430), F(0), F(215), F(Huge),
      JN(426), JN(430), JN(1500), JN(215), JN(10), JN(0),
      B(TRUE), B(FALSE),
      S(<<"O", "n">>), S(<<"T", "R", "U", "E">>), S(<<"1">>), S(<<"o", "f", "f">>),
      S(<<"4", "3">>), S(<<>>),
      Nil, Obj, Ref(2) }

Arg(id, state) == [id |-> id, state |-> state]

UpdateArgs ==
    { Arg("blind1", "position" :> v) : v \in Vals }
    \cup { Arg("thermo", "temperature" :> v) : v \in Vals }
    \cup { Arg("lamp", "on" :> v) : v \in Vals }
    \cup { Arg("lamp", "mode" :> S(<<" ", "e", " ">>)),
           Arg("lamp", "mode" :> I(3)),
           Arg("lamp", "position" :> I(150)),
           Arg("blind1", "note" :> F(426)),
           Arg("blind1", "schedule" :> Ref(2)),
           Arg("blind1", ("position" :> F(426)) @@ ("tilt" :> F(-50))),
           Arg("blind1", ("position" :> Obj) @@ ("tilt" :> F(-50))),
           Arg("thermo", ("temperature" :> S(<<"o", "f", "f">>)) @@ ("note" :> I(1))),
           Arg("lamp", ("on" :> Nil) @@ ("mode" :> S(<<" ", "e", " ">>))),
           Arg("blind1", EmptyState),
           Arg("ghost", "on" :> B(TRUE)) }

MaxCalls == 2

StoreInit ==
    /\ build \in Builds
    /\ heap = [r \in Refs |-> 0]
    /\ held = <<>>
    /\ mu = "free"
    /\ call = [c \in Callers |-> Idle]
    /\ started = (loadDevices(StoreCatalog).err = "ok")
    /\ store = NewStore(loadDevices(StoreCatalog).devices)
    /\ clients = {}
    /\ broadcast = <<>>
    /\ hpc = "recv"
    /\ hmsg = NoMsg
    /\ htodo = {}
    /\ hcur = NoOne
    /\ vpc = [v \in Viewers |-> "none"]
    /\ vsnap = [v \in Viewers |-> NoMsg]
    /\ vupd = [v \in Viewers |-> NoMsg]
    /\ conn = [v \in Viewers |-> "none"]
    /\ peer = [v \in Viewers |-> "ok"]
    /\ recv = [v \in Viewers |-> <<>>]
    /\ rpc = [r \in RestCallers |-> "idle"]
    /\ rupd = [r \in RestCallers |-> NoMsg]
    /\ rresp = [r \in RestCallers |->
                  [status |-> 0, error |-> "", device |-> NoDevice]]
    /\ requests = 0
    /\ commits = <<>>
    /\ fanned = <<>>
    /\ NoLocks

\* a call and what it was handed: by is the caller, before the device's
\* state when Update took the lock, out the devices returned
Call(by, op, id, arg, before, err, out) ==
    [by |-> by, op |-> op, id |-> id, arg |-> arg, before |-> before,
     err |-> err, out |-> out]

\* the calls begun so far
Begun == Len(held) + Cardinality({c \in Callers : call[c] # Idle})

\* UpdateLock as it would be if Update did not take Store.mu
UpdateLockNoMutex(c, id, state) ==
    /\ started
    /\ call[c] = Idle
    /\ Begun < MaxCalls
    /\ IF StoreHas(store, id)
       THEN /\ mu' = c
            /\ call' = [call EXCEPT ![c] =
                           [pc |-> "write", id |-> id, arg |-> state,
                            todo |-> DOMAIN state,
                            before |-> store.devices[id].state]]
            /\ UNCHANGED held
       ELSE /\ held' = Append(held, Call(c, "Update", id, state, EmptyState,
                                         "device not found", <<>>))
            /\ UNCHANGED <<mu, call>>
    /\ UNCHANGED <<started, lockVars, build, heap, store, hubVars, viewerVars,
                   restVars,
                   requests, commits>>

\* store.Update(id, state) by caller c: s.mu.Lock() and the lookup; an unknown
\* id returns the error at once (the deferred Unlock)
UpdateLock(c, id, state) ==
    /\ started
    /\ call[c] = Idle
    /\ Begun < MaxCalls
    /\ mu = "free"
    /\ IF StoreHas(store, id)
       THEN /\ mu' = c
            /\ call' = [call EXCEPT ![c] =
                           [pc |-> "write", id |-> id, arg |-> state,
                            todo |-> DOMAIN state,
                            before |-> store.devices[id].state]]
            /\ UNCHANGED held
       ELSE /\ held' = Append(held, Call(c, "Update", id, state, EmptyState,
                                         "device not found", <<>>))
            /\ UNCHANGED <<mu, call>>
    /\ UNCHANGED <<started, lockVars, build, heap, store, hubVars, viewerVars,
                   restVars,
                   requests, commits>>

\* UpdateWrite as it would be if the merge loop stored the request's value as
\* given
UpdateWriteVerbatim(c, k) ==
    /\ call[c] # Idle
    /\ k \in call[c].todo
    /\ store' = [store EXCEPT !.devices[call[c].id].state =
                    (k :> call[c].arg[k]) @@ @]
    /\ call' = [call EXCEPT ![c].todo = @ \ {k}]
    /\ UNCHANGED <<started, lockVars, build, heap, held, mu, hubVars,
                   viewerVars,
                   restVars, requests, commits>>

\* one iteration of the merge loop, on the key k the map iteration yields:
\* device.State[key] = normalizeValue(device.Kind, key, value)
UpdateWrite(c, k) ==
    /\ call[c] # Idle
    /\ k \in call[c].todo
    /\ store' = [store EXCEPT !.devices[call[c].id].state =
                    (k :> normalizeValue(store.devices[call[c].id].kind, k,
                                         call[c].arg[k])) @@ @]
    /\ call' = [call EXCEPT ![c].todo = @ \ {k}]
    /\ UNCHANGED <<started, lockVars, build, heap, held, mu, hubVars,
                   viewerVars,
                   restVars, requests, commits>>

\* the loop is over: the copy of the device is returned and the deferred
\* Unlock runs
UpdateReturn(c) ==
    /\ call[c] # Idle
    /\ call[c].todo = {}
    /\ held' = Append(held, Call(c, "Update", call[c].id, call[c].arg,
                                 call[c].before, "", <<Get(store, call[c].id)>>))
    /\ mu' = "free"
    /\ call' = [call EXCEPT ![c] = Idle]
    /\ UNCHANGED <<started, lockVars, build, heap, store, hubVars, viewerVars,
                   restVars,
                   requests, commits>>

\* store.Get(id) by a direct caller, under the read lock
CallGet(id) ==
    /\ started
    /\ Begun < MaxCalls
    /\ mu = "free"
    /\ held' = Append(held,
                  IF StoreHas(store, id)
                  THEN Call(NoOne, "Get", id, EmptyState, EmptyState, "",
                            <<Get(store, id)>>)
                  ELSE Call(NoOne, "Get", id, EmptyState, EmptyState, "not found", <<>>))
    /\ UNCHANGED <<started, lockVars, build, heap, mu, call, store, hubVars,
                   viewerVars,
                   restVars, requests, commits>>

\* store.List() by a direct caller, under the read lock
CallList ==
    /\ started
    /\ Begun < MaxCalls
    /\ mu = "free"
    /\ held' = Append(held,
                  Call(NoOne, "List", "", EmptyState, EmptyState, "", List(store)))
    /\ UNCHANGED <<started, lockVars, build, heap, mu, call, store, hubVars,
                   viewerVars,
                   restVars, requests, commits>>

\* the references found in the devices a call was handed
RefsOf(devices) ==
    {r \in Refs : \E i \in 1..Len(devices) : \E k \in DOMAIN devices[i].state :
                     devices[i].state[k] = Ref(r)}

\* a caller writes into a nested map of a device it was handed
ChangeNested(i, r) ==
    /\ i \in 1..Len(held)
    /\ r \in RefsOf(held[i].out)
    /\ heap' = [heap EXCEPT ![r] = 1 - @]
    /\ UNCHANGED <<started, lockVars, build, held, mu, call, store, hubVars,
                   viewerVars,
                   restVars, requests, commits>>

StoreNext ==
    \/ \E c \in Callers, a \in UpdateArgs : UpdateLock(c, a.id, a.state)
    \/ \E c \in Callers, k \in {"position", "temperature", "on", "mode", "note",
                                 "schedule", "tilt"} : UpdateWrite(c, k)
    \/ \E c \in Callers : UpdateReturn(c)
    \/ \E id \in {"blind1", "thermo", "lamp", "ghost"} : CallGet(id)
    \/ CallList
    \/ \E i \in 1..MaxCalls, r \in Refs : ChangeNested(i, r)

StoreSpec == StoreInit /\ [][StoreNext]_vars

(***************************************************************************)
(* The server with its locks and connection writes as intervals: Store.mu  *)
(* is taken and released in separate steps (Store.List 52-66, Store.Update *)
(* 80-93), and conn.WriteJSON has a step where the writer enters it and a   *)
(* step where it returns (HandleWS 266, 286, 290, 295; broadcastMessage    *)
(* 249).  gorilla/websocket allows one writer on a connection at a time:   *)
(* when two are inside together, each write may go through, put a broken   *)
(* frame on the wire, fail, or panic ("concurrent write to websocket       *)
(* connection").                                                           *)
(***************************************************************************)
HubInbound ==
    { SetMsg("blind1", "position" :> F(426)),
      [type |-> "ping", id |-> "lamp", state |-> EmptyState] }

HubPutReqs ==
    { PutReq("lamp", TRUE, "on" :> B(TRUE)),
      PutReq("ghost", TRUE, "on" :> B(TRUE)) }

\* what a viewer reads from a frame two writers wrote at once
Garbled == [type |-> "garbled"]

Other(w) == CHOOSE o \in Writers : o # w

\* writer w enters WriteJSON on v's connection
Enter(v, w) ==
    writing' = [writing EXCEPT ![v] =
                  IF @[Other(w)] = "out"
                  THEN [@ EXCEPT ![w] = "in"]
                  ELSE [@ EXCEPT ![w] = "second", ![Other(w)] = "first"]]

\* writer w is back from WriteJSON on v's connection
Leave(v, w) == writing' = [writing EXCEPT ![v][w] = "out"]

\* How a WriteJSON of writer w on v's connection can end.  Alone, it sends
\* or fails as the connection allows, and blocks while the peer reads
\* nothing.  When another writer was inside with it, it may also panic, fail,
\* or put a broken frame on the wire; the one that came in second can panic
\* before it reaches the socket.
Outcomes(v, w) ==
    IF WriteBlocks(v)
    THEN IF writing[v][w] = "second" THEN {"panic"} ELSE {}
    ELSE (IF WriteOk(v) THEN {"sent"} ELSE {"failed"})
         \cup (IF writing[v][w] \in {"first", "second"}
               THEN {"panic", "failed"}
                    \cup (IF WriteOk(v) THEN {"garbled"} ELSE {})
               ELSE {})

\* what the viewer has received after a write that ended with outcome o
Received(v, o, msg) ==
    recv' = [recv EXCEPT ![v] =
               IF o = "sent" THEN Append(@, msg)
               ELSE IF o = "garbled" THEN Append(@, Garbled)
               ELSE @]

\* An unrecovered panic in the Run goroutine: the process exits, every
\* goroutine is gone and every socket is closed.
Exit ==
    /\ started' = FALSE
    /\ hpc' = "panic"
    /\ hmsg' = NoMsg
    /\ htodo' = {}
    /\ hcur' = NoOne
    /\ clients' = {}
    /\ broadcast' = <<>>
    /\ vpc' = [v \in Viewers |-> IF vpc[v] = "none" THEN "none" ELSE "done"]
    /\ vsnap' = [v \in Viewers |-> NoMsg]
    /\ vupd' = [v \in Viewers |-> NoMsg]
    /\ conn' = [v \in Viewers |-> IF conn[v] = "open" THEN "closed" ELSE conn[v]]
    /\ peer' = [v \in Viewers |-> IF conn[v] = "open" THEN "gone" ELSE peer[v]]
    /\ recv' = [v \in Viewers |-> <<>>]
    /\ rpc' = [r \in RestCallers |-> "idle"]
    /\ rupd' = [r \in RestCallers |-> NoMsg]
    /\ storeMu' = [g \in Goroutines |-> "none"]
    /\ writing' = [v \in Viewers |-> [w \in Writers |-> "out"]]
    /\ UNCHANGED <<apiVars, store, rresp, requests, commits, fanned, dropped,
                   enqueued>>

\* Store.List: s.mu.RLock()
ListRLock(v) ==
    /\ vpc[v] = "list"
    /\ \A g \in Goroutines : storeMu[g] # "Lock"
    /\ storeMu' = [storeMu EXCEPT ![v] = "RLock"]
    /\ vpc' = [vpc EXCEPT ![v] = "listing"]
    /\ UNCHANGED <<started, apiVars, store, hubVars, vsnap, vupd, conn, peer,
                   recv,
                   restVars, requests, commits, writing, dropped, enqueued>>

\* Store.List: the copies, the deferred s.mu.RUnlock(), and
\* initial := WSMessage{Type: "state", Devices: ...}
ListRUnlock(v) ==
    /\ vpc[v] = "listing"
    /\ vsnap' = [vsnap EXCEPT ![v] = StateMsg(List(store), Len(commits))]
    /\ storeMu' = [storeMu EXCEPT ![v] = "none"]
    /\ vpc' = [vpc EXCEPT ![v] = "send"]
    /\ UNCHANGED <<started, apiVars, store, hubVars, vupd, conn, peer, recv,
                   restVars, requests, commits, writing, dropped, enqueued>>

\* conn.WriteJSON(initial) is entered
InitialWriteBegin(v) ==
    /\ vpc[v] = "send"
    /\ Enter(v, "handler")
    /\ vpc' = [vpc EXCEPT ![v] = "sending"]
    /\ UNCHANGED <<started, apiVars, store, hubVars, vsnap, vupd, conn, peer,
                   recv,
                   restVars, requests, commits, storeMu, dropped, enqueued>>

\* conn.WriteJSON(initial) returns: on an error the handler returns, and a
\* panic unwinds it; both run the deferred unregister
InitialWriteEnd(v) ==
    /\ vpc[v] = "sending"
    /\ \E o \in Outcomes(v, "handler") :
          /\ Received(v, o, vsnap[v])
          /\ vpc' = [vpc EXCEPT ![v] =
                       IF o \in {"sent", "garbled"} THEN "read" ELSE "return"]
    /\ Leave(v, "handler")
    /\ vsnap' = [vsnap EXCEPT ![v] = NoMsg]
    /\ UNCHANGED <<started, apiVars, store, hubVars, vupd, conn, peer,
                   restVars,
                   requests, commits, storeMu, dropped, enqueued>>

\* conn.ReadJSON yields a message the type check or the id check rejects
ReadRejected(v, m) ==
    /\ vpc[v] = "read"
    /\ conn[v] = "open"
    /\ peer[v] # "gone"
    /\ requests < MaxRequests
    /\ requests' = requests + 1
    /\ m.type # "set" \/ m.id = ""
    /\ vupd' = [vupd EXCEPT ![v] =
                  ErrorMsg(IF m.type # "set" THEN "unsupported message type"
                           ELSE "missing device id")]
    /\ vpc' = [vpc EXCEPT ![v] = "reply"]
    /\ UNCHANGED <<started, apiVars, store, hubVars, vsnap, conn, peer, recv,
                   restVars, commits, lockVars>>

\* conn.ReadJSON yields a set with an id, and h.store.Update has s.mu.Lock()
\* and has done its writes
ReadSet(v, m) ==
    /\ vpc[v] = "read"
    /\ conn[v] = "open"
    /\ peer[v] # "gone"
    /\ requests < MaxRequests
    /\ requests' = requests + 1
    /\ m.type = "set" /\ m.id # ""
    /\ \A g \in Goroutines : storeMu[g] = "none"
    /\ storeMu' = [storeMu EXCEPT ![v] = "Lock"]
    /\ IF Update(store, m.id, m.state).err # ""
       THEN /\ vupd' = [vupd EXCEPT ![v] =
                          ErrorMsg(Update(store, m.id, m.state).err)]
            /\ UNCHANGED <<store, commits>>
       ELSE /\ Commit(Update(store, m.id, m.state))
            /\ vupd' = [vupd EXCEPT ![v] =
                          UpdateMsg(Update(store, m.id, m.state).device,
                                    Len(commits) + 1)]
    /\ vpc' = [vpc EXCEPT ![v] = "locked"]
    /\ UNCHANGED <<started, apiVars, hubVars, vsnap, conn, peer, recv,
                   restVars,
                   writing, dropped, enqueued>>

\* UpdateUnlock as it would be if the handler, not Store.Update, held the
\* lock until its loop iteration ends: Update returns with s.mu still locked
UpdateReturnsLocked(v) ==
    /\ vpc[v] = "locked"
    /\ vpc' = [vpc EXCEPT ![v] =
                 IF vupd[v].type = "update" THEN "enqueue" ELSE "reply"]
    /\ UNCHANGED <<started, apiVars, store, hubVars, vsnap, vupd, conn, peer,
                   recv,
                   restVars, requests, commits, lockVars>>

\* Store.Update returns: the deferred s.mu.Unlock()
UpdateUnlock(v) ==
    /\ vpc[v] = "locked"
    /\ storeMu' = [storeMu EXCEPT ![v] = "none"]
    /\ vpc' = [vpc EXCEPT ![v] =
                 IF vupd[v].type = "update" THEN "enqueue" ELSE "reply"]
    /\ UNCHANGED <<started, apiVars, store, hubVars, vsnap, vupd, conn, peer,
                   recv,
                   restVars, requests, commits, writing, dropped, enqueued>>

\* the error reply's conn.WriteJSON is entered
ReplyBegin(v) ==
    /\ vpc[v] = "reply"
    /\ Enter(v, "handler")
    /\ vpc' = [vpc EXCEPT ![v] = "replying"]
    /\ UNCHANGED <<started, apiVars, store, hubVars, vsnap, vupd, conn, peer,
                   recv,
                   restVars, requests, commits, storeMu, dropped, enqueued>>

\* the error reply's conn.WriteJSON returns: its error is dropped and the
\* loop continues; a panic unwinds the handler
ReplyEnd(v) ==
    /\ vpc[v] = "replying"
    /\ \E o \in Outcomes(v, "handler") :
          /\ Received(v, o, vupd[v])
          /\ vpc' = [vpc EXCEPT ![v] = IF o = "panic" THEN "return" ELSE "read"]
    /\ Leave(v, "handler")
    /\ vupd' = [vupd EXCEPT ![v] = NoMsg]
    /\ UNCHANGED <<started, apiVars, store, hubVars, vsnap, conn, peer,
                   restVars,
                   requests, commits, storeMu, dropped, enqueued>>

\* the deferred h.unregister(conn) of a handler that is returning
Return(v) ==
    /\ vpc[v] = "return"
    /\ unregister(v)
    /\ vpc' = [vpc EXCEPT ![v] = "done"]
    /\ UNCHANGED <<started, apiVars, store, broadcast, hpc, hmsg, htodo, hcur,
                   fanned,
                   vsnap, vupd, restVars, requests, commits, lockVars>>

\* PUT with a body that decodes and a state that is not empty: store.Update
\* has s.mu.Lock() and has done its writes
PutLock(r, q) ==
    /\ started
    /\ rpc[r] = "idle"
    /\ requests < MaxRequests
    /\ requests' = requests + 1
    /\ q.json /\ DOMAIN q.state # {}
    /\ \A g \in Goroutines : storeMu[g] = "none"
    /\ storeMu' = [storeMu EXCEPT ![r] = "Lock"]
    /\ IF Update(store, q.id, q.state).err # ""
       THEN /\ rupd' = [rupd EXCEPT ![r] =
                          ErrorMsg(Update(store, q.id, q.state).err)]
            /\ UNCHANGED <<store, commits>>
       ELSE /\ Commit(Update(store, q.id, q.state))
            /\ rupd' = [rupd EXCEPT ![r] =
                          UpdateMsg(Update(store, q.id, q.state).device,
                                    Len(commits) + 1)]
    /\ rpc' = [rpc EXCEPT ![r] = "locked"]
    /\ UNCHANGED <<started, apiVars, hubVars, viewerVars, rresp, writing, dropped, enqueued>>

\* store.Update returns: the deferred s.mu.Unlock(); an error is answered
\* with 404
PutUnlock(r) ==
    /\ rpc[r] = "locked"
    /\ storeMu' = [storeMu EXCEPT ![r] = "none"]
    /\ IF rupd[r].type = "update"
       THEN /\ rpc' = [rpc EXCEPT ![r] = "enqueue"]
            /\ UNCHANGED <<rupd, rresp>>
       ELSE /\ rresp' = [rresp EXCEPT ![r] =
                           [status |-> 404, error |-> rupd[r].error,
                            device |-> NoDevice]]
            /\ rupd' = [rupd EXCEPT ![r] = NoMsg]
            /\ rpc' = [rpc EXCEPT ![r] = "idle"]
    /\ UNCHANGED <<started, apiVars, store, hubVars, viewerVars, requests,
                   commits,
                   writing, dropped, enqueued>>

\* one iteration of the range loop: client.WriteJSON(message) is entered
HubWriteBegin(c) ==
    /\ hpc = "fanout"
    /\ c \in htodo
    /\ hcur = NoOne
    /\ hcur' = c
    /\ Enter(c, "hub")
    /\ UNCHANGED <<started, apiVars, store, clients, broadcast, hpc, hmsg,
                   htodo,
                   fanned, viewerVars, restVars, requests, commits, storeMu, dropped, enqueued>>

\* client.WriteJSON(message) returns: on an error the client is deleted and
\* its connection closed; a panic ends the process
HubWriteEnd(c) ==
    /\ hpc = "fanout"
    /\ hcur = c
    /\ \E o \in Outcomes(c, "hub") :
          IF o = "panic" THEN Exit
          ELSE /\ hcur' = NoOne
               /\ htodo' = htodo \ {c}
               /\ Leave(c, "hub")
               /\ IF o = "failed"
                  THEN /\ CloseAndDelete(c)
                       /\ dropped' = dropped \cup {c}
                  ELSE /\ Received(c, o, hmsg)
                       /\ UNCHANGED <<clients, conn, peer, dropped>>
               /\ UNCHANGED <<started, apiVars, store, broadcast, hpc, hmsg,
                              fanned,
                              vpc, vsnap, vupd, restVars, requests, commits, storeMu,
                              enqueued>>

\* the server has started from a catalog that loads (the runs are those of an
\* amd64 build: no value of these requests is out of an int's range)
HubInit == Init /\ started /\ build = "amd64"

HubNext ==
    \/ \E v \in Viewers : Connect(v)
    \/ \E v \in Viewers : ListRLock(v)
    \/ \E v \in Viewers : ListRUnlock(v)
    \/ \E v \in Viewers : InitialWriteBegin(v)
    \/ \E v \in Viewers : InitialWriteEnd(v)
    \/ \E v \in Viewers : ReadError(v)
    \/ \E v \in Viewers, m \in HubInbound : ReadRejected(v, m)
    \/ \E v \in Viewers, m \in HubInbound : ReadSet(v, m)
    \/ \E v \in Viewers : UpdateUnlock(v)
    \/ \E v \in Viewers : Enqueue(v)
    \/ \E v \in Viewers : ReplyBegin(v)
    \/ \E v \in Viewers : ReplyEnd(v)
    \/ \E v \in Viewers : Return(v)
    \/ \E v \in Viewers : PeerStuck(v)
    \/ \E v \in Viewers : PeerGone(v)
    \/ \E r \in RestCallers, q \in HubPutReqs : PutLock(r, q)
    \/ \E r \in RestCallers : PutUnlock(r)
    \/ \E r \in RestCallers : PutEnqueue(r)
    \/ RunReceive
    \/ \E c \in Viewers : HubWriteBegin(c)
    \/ \E c \in Viewers : HubWriteEnd(c)
    \/ FanoutDone

HubSpec == HubInit /\ [][HubNext]_vars

(***************************************************************************)
(* The browser's view (web/app.js:232-233, 286, 332-340).  JSON.parse      *)
(* yields one number type: the Go int 43 and the Go float64 43.0 are both  *)
(* the number 43 (kept in tenths).                                         *)
(***************************************************************************)
Wire(value) ==
    CASE value.t = "int" -> [t |-> "number", x |-> value.n * 10]
      [] value.t = "float" -> [t |-> "number", x |-> value.x]
      [] OTHER -> value

WireDevice(d) == [d EXCEPT !.state = [k \in DOMAIN d.state |-> Wire(d.state[k])]]

\* renderDevices: deviceState = new Map(devices.map((device) => [device.id, device]))
renderDevices(devices) ==
    [id \in {devices[i].id : i \in 1..Len(devices)} |->
        WireDevice(devices[CHOOSE i \in 1..Len(devices) :
                             /\ devices[i].id = id
                             /\ \A j \in (i+1)..Len(devices) : devices[j].id # id])]

\* applyDeviceUpdate: deviceState.set(device.id, device)
applyDeviceUpdate(view, device) ==
    [id \in (DOMAIN view) \cup {device.id} |->
        IF id = device.id THEN WireDevice(device) ELSE view[id]]

\* the message handler of connect
OnMessage(view, payload) ==
    CASE payload.type = "state" -> renderDevices(payload.devices)
      [] payload.type = "update" -> applyDeviceUpdate(view, payload.device)
      [] OTHER -> view

RECURSIVE ViewAfter(_, _)
ViewAfter(view, msgs) ==
    IF msgs = <<>> THEN view
    ELSE ViewAfter(OnMessage(view, Head(msgs)), Tail(msgs))

EmptyView == [id \in {} |-> NoDevice]

\* deviceState of viewer v after the messages it has received
View(v) == ViewAfter(EmptyView, recv[v])

\* the registry as a viewer would see it
RegistryView == [id \in DOMAIN store.devices |-> WireDevice(store.devices[id])]

(***************************************************************************)
(* What the claims speak of.                                               *)
(***************************************************************************)
\* the positions of the update messages viewer v has received
Updates(v) == {i \in 1..Len(recv[v]) : recv[v][i].type = "update"}

HasUpdate(v, k) == \E i \in Updates(v) : recv[v][i].seq = k

Errors(msgs) == {i \in 1..Len(msgs) : msgs[i].type = "error"}

\* the viewer is connected and accepts what is written to it
Accepting(v) == conn[v] = "open" /\ peer[v] = "ok"

\* commit k is in the snapshot viewer v received
InSnapshot(v, k) ==
    \E j \in 1..Len(recv[v]) : recv[v][j].type = "state" /\ k <= recv[v][j].seq

\* every writer has finished and the broadcast queue is drained
Quiescent ==
    /\ broadcast = <<>>
    /\ hpc = "recv"
    /\ \A v \in Viewers : vpc[v] # "enqueue"
    /\ \A r \in RestCallers : rpc[r] = "idle"

\* C1: the update messages a viewer receives for one device arrive in the
\* order of their commits.
C1_PerDeviceCommitOrder ==
    \A v \in Viewers : \A i, j \in Updates(v) :
        (i < j /\ recv[v][i].device.id = recv[v][j].device.id)
            => recv[v][i].seq < recv[v][j].seq

\* C2: once the writers have finished and the queue is drained, the view of
\* every connected viewer that got its snapshot equals the registry.
C2_Convergence ==
    Quiescent =>
        \A v \in Viewers :
            (vpc[v] = "read" /\ Accepting(v)) => View(v) = RegistryView

\* C3: every update message a viewer receives comes after its state message
\* and carries a commit made after that snapshot was taken.
C3_SnapshotThenLaterUpdates ==
    \A v \in Viewers : \A i \in Updates(v) :
        \E j \in 1..(i - 1) :
            recv[v][j].type = "state" /\ recv[v][j].seq < recv[v][i].seq

\* C4: every commit is, for every viewer that stays connected and accepts
\* writes, in the viewer's snapshot or eventually among its update messages.
C4_NoMissedUpdate ==
    \A v \in Viewers : \A k \in 1..MaxRequests :
        [](k <= Len(commits) /\ Accepting(v)
              => <>(~Accepting(v) \/ InSnapshot(v, k) \/ HasUpdate(v, k)))

\* C5: whatever a viewer that reads nothing does, a fan-out reaches (or drops)
\* every other viewer and releases Hub.mu, so that viewers can register, and
\* every writer completes its enqueue.
C5_StuckViewerBlocksNoOne ==
    /\ \A u \in Viewers :
          [](hpc = "fanout" /\ u \in htodo /\ Accepting(u)
                => <>(u \notin htodo \/ ~Accepting(u)))
    /\ [](hpc = "fanout" => <>HubMuFree)
    /\ \A v \in Viewers : [](vpc[v] = "enqueue" => <>(vpc[v] # "enqueue"))
    /\ \A r \in RestCallers : [](rpc[r] = "enqueue" => <>(rpc[r] = "idle"))

\* where the notification of commit k is: with its writer, in the queue, in
\* the fan-out, or fanned out
Pending(k) ==
    Cardinality({v \in Viewers : vupd[v].type = "update" /\ vupd[v].seq = k})
    + Cardinality({r \in RestCallers : rupd[r].type = "update" /\ rupd[r].seq = k})
    + Cardinality({i \in 1..Len(broadcast) : broadcast[i].seq = k})
    + (IF hpc = "fanout" /\ hmsg.seq = k THEN 1 ELSE 0)
    + Cardinality({i \in 1..Len(fanned) : fanned[i] = k})

\* every commit has exactly one notification; no viewer got one twice, each
\* carries the committed device, and the clients the fan-out has visited and
\* kept have it
OneNotificationEach ==
    /\ \A k \in 1..Len(commits) : Pending(k) = 1
    /\ \A v \in Viewers : \A i, j \in Updates(v) :
          /\ recv[v][i].device = commits[recv[v][i].seq]
          /\ (i # j) => recv[v][i].seq # recv[v][j].seq
    /\ hpc = "fanout" => \A c \in clients \ htodo : HasUpdate(c, hmsg.seq)

\* C6: every successful Update has exactly one notification, which every
\* connected viewer that accepts writes receives exactly once with the
\* committed content, and which is eventually fanned out.
C6_OneNotificationDelivered ==
    /\ []OneNotificationEach
    /\ \A k \in 1..MaxRequests :
          [](k <= Len(commits) => <>(\E i \in 1..Len(fanned) : fanned[i] = k))
    /\ \A v \in Viewers : \A k \in 1..MaxRequests :
          []((hpc = "fanout" /\ hmsg.seq = k /\ v \in htodo /\ Accepting(v))
                => <>(~Accepting(v) \/ HasUpdate(v, k)))

\* C7, in the runs where no two WriteJSON calls on a connection overlap
\* (Spec): a client is in the viewer set exactly while its connection is open
\* (a failed write removes and closes it), and a fan-out still visits every other
\* client of the set: those it has visited and kept have the notification.
C7_FailedViewerDropped ==
    /\ \A c \in Viewers : (c \in clients) <=> (conn[c] = "open")
    /\ hpc = "fanout" =>
          /\ htodo \subseteq clients
          /\ \A c \in clients \ htodo : HasUpdate(c, hmsg.seq)

\* C7's case: one client was dropped by a failed write, and another has the
\* first notification and the one now being fanned out.
C7_Witness ==
    /\ hpc = "fanout"
    /\ htodo = {}
    /\ Len(fanned) = 1
    /\ \E c, u \in Viewers :
          /\ conn[c] = "closed" /\ vpc[c] # "done"
          /\ u \in clients
          /\ HasUpdate(u, fanned[1]) /\ HasUpdate(u, hmsg.seq)

\* C8: a set or a PUT for an id the registry does not hold gets the not-found
\* error, changes no device and enqueues nothing.
C8_UnknownIdNoEffect ==
    [][ /\ \A v \in Viewers, m \in Inbound :
              (HandleMessage(v, m) /\ m.type = "set" /\ m.id # ""
                  /\ m.id \notin DOMAIN store.devices)
              => /\ store' = store /\ commits' = commits
                 /\ broadcast' = broadcast /\ vupd' = vupd /\ rupd' = rupd
                 /\ vpc'[v] = "read"
                 /\ WriteOk(v) => recv'[v] = Append(recv[v], ErrorMsg("device not found"))
        /\ \A r \in RestCallers, q \in PutReqs :
              (Put(r, q) /\ q.json /\ DOMAIN q.state # {}
                  /\ q.id \notin DOMAIN store.devices)
              => /\ store' = store /\ commits' = commits
                 /\ broadcast' = broadcast /\ vupd' = vupd /\ rupd' = rupd
                 /\ rpc'[r] = "idle"
                 /\ rresp'[r].status = 404
                 /\ rresp'[r].error = "device not found"
      ]_vars

\* C8's case: a viewer and a REST caller both asked for an unknown id.
C8_Witness ==
    /\ \E v \in Viewers : \E i \in Errors(recv[v]) :
          recv[v][i].error = "device not found"
    /\ \E r \in RestCallers : rresp[r].status = 404

\* C9: a viewer gets a new error message only in a step of its own handler
\* that rejects its own request, and the broadcast channel and the fan-out
\* carry update messages only.
C9_ErrorsOnlyToRequester ==
    [][ /\ \A v \in Viewers :
              Cardinality(Errors(recv'[v])) > Cardinality(Errors(recv[v]))
              => \E m \in Inbound :
                    /\ HandleMessage(v, m)
                    /\ \/ m.type # "set" \/ m.id = ""
                       \/ m.id \notin DOMAIN store.devices
                    /\ \A u \in Viewers \ {v} : recv'[u] = recv[u]
        /\ \A i \in 1..Len(broadcast') : broadcast'[i].type = "update"
        /\ hpc' = "fanout" => hmsg'.type = "update"
      ]_vars

\* C9's case: one viewer got an error for its request, a REST caller got one
\* for its own, and a second viewer has its snapshot and no error.
C9_Witness ==
    \E v, u \in Viewers :
        /\ v # u
        /\ Errors(recv[v]) # {}
        /\ vpc[u] = "read" /\ Len(recv[u]) = 1 /\ Errors(recv[u]) = {}
        /\ \E r \in RestCallers : rresp[r].status \in {400, 404}

\* the normalized domain of a kind and key
InDomain(kind, key, value) ==
    CASE kind \in {"blind", "humidifier"} /\ key \in {"position", "level"} ->
            value.t = "int" /\ 0 <= value.n /\ value.n <= 100
      [] kind = "thermostat" /\ key = "temperature" ->
            \/ value.t = "float" /\ 100 <= value.x /\ value.x <= 300
            \/ value.t = "int" /\ 10 <= value.n /\ value.n <= 30
      [] kind \in BoolKinds /\ key \in {"on", "open", "locked"} ->
            value.t = "bool"
      [] OTHER -> TRUE

\* C10: every value of every device of the registry is in the normalized
\* domain of its kind and key.
C10_StateInDomain ==
    \A id \in DOMAIN store.devices :
        \A key \in DOMAIN store.devices[id].state :
            InDomain(store.devices[id].kind, key, store.devices[id].state[key])

(***************************************************************************)
(* The claims about the Store called directly.                             *)
(***************************************************************************)
\* the successful Update calls made so far
Updated == {i \in 1..Len(held) : held[i].op = "Update" /\ held[i].err = ""}

KindOf(id) == store.devices[id].kind

\* a Go int or float64 and the number it holds, in tenths
IsIntOrFloat(value) == value.t \in {"int", "float"}
Tenths(value) == IF value.t = "int" THEN value.n * 10 ELSE value.x

\* the nearest whole number to x tenths, a half going away from zero
RoundNearest(x) == IF x >= 0 THEN (x + 5) \div 10 ELSE -((5 - x) \div 10)

Clamp(x, lo, hi) == IF x < lo THEN lo ELSE IF x > hi THEN hi ELSE x

\* C11: an Update of a blind's or humidifier's position or level with an int
\* or float x stores clamp(round(x), 0, 100), and one of a thermostat's
\* temperature stores clamp(x, 10, 30).
C11_ClampRound ==
    \A i \in Updated : \A k \in DOMAIN held[i].arg :
        IsIntOrFloat(held[i].arg[k]) =>
            /\ (KindOf(held[i].id) \in {"blind", "humidifier"}
                    /\ k \in {"position", "level"})
                => held[i].out[1].state[k]
                     = I(Clamp(RoundNearest(Tenths(held[i].arg[k])), 0, 100))
            /\ (KindOf(held[i].id) = "thermostat" /\ k = "temperature")
                => held[i].out[1].state[k]
                     = F(Clamp(Tenths(held[i].arg[k]), 100, 300))

\* a number in any of its representations, and the number, in tenths
IsNumber(value) == value.t \in {"int", "float", "json.Number"}
NumberOf(value) ==
    CASE value.t = "int" -> value.n * 10
      [] value.t = "float" -> value.x
      [] value.t = "json.Number" -> value.j

\* the key has a numeric rule for the device's kind
NumericRule(kind, k) ==
    \/ kind \in {"blind", "humidifier"} /\ k \in {"position", "level"}
    \/ kind = "thermostat" /\ k = "temperature"

\* C12: two Updates of the same numeric key of the same device with the same
\* number store the same value, whatever the representations of the number
\* (int, float64 or json.Number).
C12_SameNumberSameResult ==
    \A a, b \in Updated :
        (held[a].id = held[b].id) =>
            \A k \in (DOMAIN held[a].arg) \cap (DOMAIN held[b].arg) :
                (/\ NumericRule(KindOf(held[a].id), k)
                 /\ IsNumber(held[a].arg[k]) /\ IsNumber(held[b].arg[k])
                 /\ NumberOf(held[a].arg[k]) = NumberOf(held[b].arg[k]))
                => held[a].out[1].state[k] = held[b].out[1].state[k]

\* of the strings of Vals, those equal to "true" or "on" whatever the case,
\* or equal to "1"
TrueStrings == { <<"O", "n">>, <<"T", "R", "U", "E">>, <<"1">> }

\* the inputs the claim reads as true
Truthy(value) ==
    \/ value = B(TRUE)
    \/ IsNumber(value) /\ NumberOf(value) # 0
    \/ value.t = "string" /\ value.s \in TrueStrings

\* C13: for the keys on, open and locked of a toggle, lock, sensor, toaster,
\* doors or vacuum, the stored value is true exactly when the input is true,
\* a nonzero number, or one of the true strings, and false otherwise.
C13_BoolCoercion ==
    \A i \in Updated : \A k \in DOMAIN held[i].arg :
        (KindOf(held[i].id) \in BoolKinds /\ k \in {"on", "open", "locked"})
        => held[i].out[1].state[k] = B(Truthy(held[i].arg[k]))

\* the kind has a rule for the key and the value
HasRule(kind, k, value) ==
    \/ NumericRule(kind, k)
    \/ kind \in BoolKinds /\ k \in {"on", "open", "locked"}
    \/ kind \in BoolKinds /\ k = "mode" /\ value.t = "string"

\* C14: the device a successful Update returns has the prior state with each
\* key of the request replaced by its normalized value (verbatim where the
\* kind has no rule) and every other key kept, and a Get of the same id that
\* follows it with no write in between returns that same device.
C14_GetAfterUpdate ==
    \A i \in Updated :
        LET c == held[i]
            d == held[i].out[1]
        IN  /\ d.id = c.id
            /\ DOMAIN d.state = (DOMAIN c.before) \cup (DOMAIN c.arg)
            /\ \A k \in DOMAIN c.arg :
                  /\ d.state[k] = normalizeValue(d.kind, k, c.arg[k])
                  /\ ~HasRule(d.kind, k, c.arg[k]) => d.state[k] = c.arg[k]
            /\ \A k \in (DOMAIN c.before) \ (DOMAIN c.arg) :
                  d.state[k] = c.before[k]
            /\ (i < Len(held) /\ held[i + 1].op = "Get" /\ held[i + 1].id = c.id)
                  => held[i + 1].out = <<d>>
            /\ (i = Len(held) /\ mu = "free") => Get(store, c.id) = d

\* C14's case: an Update of two keys, one with a rule and one without, on a
\* device with a key the request leaves alone, followed by a Get of the device.
C14_Witness ==
    /\ Len(held) = 2
    /\ 1 \in Updated
    /\ DOMAIN held[1].arg = {"position", "tilt"}
    /\ "schedule" \in DOMAIN held[1].out[1].state
    /\ held[2].op = "Get" /\ held[2].id = held[1].id /\ held[2].err = ""

\* the successful Updates of device id that returned before call j did
Earlier(j, id) == {i \in Updated : i < j /\ held[i].id = id}

\* the last of a nonempty set of calls
Last(calls) == CHOOSE i \in calls : \A h \in calls : h <= i

\* the state of device id that the calls before j have committed
Committed(j, id) ==
    IF Earlier(j, id) = {}
    THEN NewStore(StoreCatalog).devices[id].state
    ELSE held[Last(Earlier(j, id))].out[1].state

\* C15: Updates are serialized. At most one caller is inside Update; each
\* Update finds the state the Updates before it committed and returns that
\* state with its own request merged in, so no key of an earlier Update is
\* lost and the later commit wins a shared key; and the registry holds the
\* state the last Update returned.
C15_UpdatesSerialized ==
    /\ Cardinality({c \in Callers : call[c] # Idle}) <= 1
    /\ \A c \in Callers :
          call[c] # Idle => call[c].before = Committed(Len(held) + 1, call[c].id)
    /\ \A j \in Updated :
          /\ held[j].before = Committed(j, held[j].id)
          /\ held[j].out[1].state =
                [k \in (DOMAIN held[j].before) \cup (DOMAIN held[j].arg) |->
                    IF k \in DOMAIN held[j].arg
                    THEN normalizeValue(KindOf(held[j].id), k, held[j].arg[k])
                    ELSE held[j].before[k]]
    /\ mu = "free" =>
          \A id \in DOMAIN store.devices :
              store.devices[id].state = Committed(Len(held) + 1, id)

\* C15's case: two callers have updated the same device, the second with a
\* key of the first and a key of its own.
C15_Witness ==
    /\ Len(held) = 2
    /\ Updated = {1, 2}
    /\ held[1].by # held[2].by
    /\ held[1].id = held[2].id
    /\ DOMAIN held[1].arg = {"position"}
    /\ DOMAIN held[2].arg = {"position", "tilt"}
    /\ held[1].out[1].state["position"] # held[2].out[1].state["position"]

\* a state map with every nested map in place of its reference, on heap h
DeepState(state, h) ==
    [k \in DOMAIN state |->
        IF state[k].t = "ref"
        THEN [t |-> "map", c |-> h[state[k].r]]
        ELSE state[k]]

\* the registry's device states, and the states of the devices call i was
\* handed, with the nested maps in place
DeepRegistry(st, h) ==
    [id \in DOMAIN st.devices |-> DeepState(st.devices[id].state, h)]
DeepOut(hd, i, h) ==
    [n \in 1..Len(hd[i].out) |-> DeepState(hd[i].out[n].state, h)]

\* C16: when a caller changes a value inside a device it was handed, a nested
\* map included, the registry and every other snapshot stay as they were;
\* and when the registry changes, the snapshots handed out stay as they were.
C16_SnapshotsIndependent ==
    [][ /\ \A i \in 1..MaxCalls, r \in Refs :
              ChangeNested(i, r)
              => /\ DeepRegistry(store', heap') = DeepRegistry(store, heap)
                 /\ \A j \in (1..Len(held)) \ {i} :
                       DeepOut(held', j, heap') = DeepOut(held, j, heap)
        /\ store' # store
              => \A j \in 1..Len(held) :
                    DeepOut(held', j, heap') = DeepOut(held, j, heap)
      ]_vars

\* the devices are those of the catalog, each once and in its order, with the
\* id, name, kind and room they were loaded with
AsLoaded(devices) ==
    /\ Len(devices) = Len(StoreCatalog)
    /\ \A n \in 1..Len(devices) :
          /\ devices[n].id = StoreCatalog[n].id
          /\ devices[n].name = StoreCatalog[n].name
          /\ devices[n].kind = StoreCatalog[n].kind
          /\ devices[n].room = StoreCatalog[n].room
    /\ \A n, m \in 1..Len(devices) : n # m => devices[n].id # devices[m].id

\* C17: whatever List, Get and Update calls were made, List returns the
\* devices of the loaded catalog, each once and in load order, with the id,
\* name, kind and room they were loaded with; so did every List made so far.
C17_CatalogFixed ==
    /\ AsLoaded(List(store))
    /\ DOMAIN store.devices = {StoreCatalog[n].id : n \in 1..Len(StoreCatalog)}
    /\ \A i \in 1..Len(held) : held[i].op = "List" => AsLoaded(held[i].out)

\* C17's case: a List made after a successful Update.
C17_Witness ==
    /\ Len(held) = 2
    /\ 1 \in Updated
    /\ held[2].op = "List"
    /\ held[2].out[1].state # StoreCatalog[1].state

\* two devices of the catalog share an id; a device lacks id, name or kind
HasDuplicate(raw) ==
    \E i, j \in 1..Len(raw) : i # j /\ raw[i].id = raw[j].id
LacksField(raw) ==
    \E i \in 1..Len(raw) : raw[i].id = "" \/ raw[i].name = "" \/ raw[i].kind = ""

\* C18: a catalog with a duplicate id or a device lacking id, name or kind
\* fails to load and yields no device; then startup aborts, no registry is
\* built and nothing is served. The ids of a registry that was built are
\* unique, and its devices have id, name and kind.
C18_BadCatalogNoRegistry ==
    /\ \A raw \in RawCatalogs :
          (HasDuplicate(raw) \/ LacksField(raw))
          => loadDevices(raw).err # "ok" /\ loadDevices(raw).devices = <<>>
    /\ ~started =>
          /\ store.order = <<>> /\ DOMAIN store.devices = {}
          /\ clients = {} /\ requests = 0
          /\ \A v \in Viewers : vpc[v] = "none"
    /\ started =>
          /\ store.order # <<>>
          /\ \A n, m \in 1..Len(store.order) :
                n # m => store.order[n] # store.order[m]
          /\ \A id \in DOMAIN store.devices :
                /\ store.devices[id].id = id /\ id # ""
                /\ store.devices[id].name # "" /\ store.devices[id].kind # ""
          /\ \E raw \in RawCatalogs :
                /\ ~HasDuplicate(raw) /\ ~LacksField(raw)
                /\ store.order = [n \in 1..Len(raw) |-> raw[n].id]

\* C18's case: the catalog did not load and startup aborted.
C18_Witness ==
    /\ ~started
    /\ store.order = <<>>
    /\ \E raw \in RawCatalogs : HasDuplicate(raw) /\ loadDevices(raw).err # "ok"
    /\ \E raw \in RawCatalogs : LacksField(raw) /\ loadDevices(raw).err # "ok"

\* the error text of a message the read loop rejects before the registry
Rejected(m) ==
    IF m.type # "set" THEN "unsupported message type" ELSE "missing device id"

\* C19, in the runs where no two WriteJSON calls on a connection overlap
\* (Spec): a viewer message whose type is not set, or whose id is missing, gets
\* one error reply on the sender's connection and nothing else happens: the
\* registry, the broadcast channel, the viewer set and the other viewers are
\* as before, and the sender is still connected and at its read loop.
C19_BadMessageOnlyReply ==
    [][ \A v \in Viewers, m \in Inbound :
            (HandleMessage(v, m) /\ (m.type # "set" \/ m.id = ""))
            => /\ store' = store /\ commits' = commits
               /\ broadcast' = broadcast /\ vupd' = vupd /\ rupd' = rupd
               /\ hmsg' = hmsg /\ htodo' = htodo
               /\ WriteOk(v) => recv'[v] = Append(recv[v], ErrorMsg(Rejected(m)))
               /\ \A u \in Viewers \ {v} :
                     /\ recv'[u] = recv[u] /\ conn'[u] = conn[u]
                     /\ vpc'[u] = vpc[u] /\ peer'[u] = peer[u]
               /\ clients' = clients
               /\ conn'[v] = "open" /\ vpc'[v] = "read"
      ]_vars

\* C19's case: a connected viewer sent a message of another type and one
\* without an id, got the two errors, and is at its read loop, while another
\* viewer is connected too.
C19_Witness ==
    \E v, u \in Viewers :
        /\ v # u
        /\ vpc[v] = "read" /\ v \in clients /\ conn[v] = "open"
        /\ \E i, j \in Errors(recv[v]) :
              /\ recv[v][i].error = "unsupported message type"
              /\ recv[v][j].error = "missing device id"
        /\ u \in clients /\ Errors(recv[u]) = {}

\* C20: a PUT and a viewer's set whose state is empty or absent are both
\* rejected: the requester gets an error, the registry is unchanged and no
\* update is on its way to the viewers.
C20_EmptyStateRejected ==
    [][ /\ \A r \in RestCallers, q \in PutReqs :
              (Put(r, q) /\ q.json /\ DOMAIN q.state = {})
              => /\ rresp'[r].status = 400
                 /\ store' = store /\ commits' = commits
                 /\ rupd' = rupd /\ vupd' = vupd /\ broadcast' = broadcast
        /\ \A v \in Viewers, m \in Inbound :
              (HandleMessage(v, m) /\ m.type = "set" /\ m.id # ""
                  /\ DOMAIN m.state = {})
              => /\ WriteOk(v) =>
                       Cardinality(Errors(recv'[v])) = Cardinality(Errors(recv[v])) + 1
                 /\ store' = store /\ commits' = commits
                 /\ rupd' = rupd /\ vupd' = vupd /\ broadcast' = broadcast
      ]_vars

\* the kind has a boolean rule for the key
BoolRule(kind, k) == kind \in BoolKinds /\ k \in {"on", "open", "locked"}

\* the value's type is none the rule of the kind and key can read
Mistyped(kind, k, value) ==
    \/ NumericRule(kind, k) /\ ~IsNumber(value)
    \/ BoolRule(kind, k) /\ value.t \notin {"bool", "string", "int", "float"}

\* what the rule stores for a value it cannot read: the least value of a
\* numeric rule's range, false for a boolean rule
Fallback(kind, k) ==
    CASE kind \in {"blind", "humidifier"} /\ k \in {"position", "level"} -> I(0)
      [] kind = "thermostat" /\ k = "temperature" -> F(100)
      [] BoolRule(kind, k) -> B(FALSE)

\* the zero value of the rule's type
ZeroOf(kind, k) ==
    CASE kind \in {"blind", "humidifier"} /\ k \in {"position", "level"} -> I(0)
      [] kind = "thermostat" /\ k = "temperature" -> F(0)
      [] BoolRule(kind, k) -> B(FALSE)

\* every Update of a known device succeeded, and where a request gave a
\* value its rule cannot read, the device returned has stored(kind, k) under
\* that key and the normalized values of the request's other keys
MistypedStores(stored(_, _)) ==
    \A i \in 1..Len(held) :
        (held[i].op = "Update" /\ held[i].id \in DOMAIN store.devices)
        => /\ held[i].err = ""
           /\ \A k \in DOMAIN held[i].arg :
                 Mistyped(KindOf(held[i].id), k, held[i].arg[k])
                 => /\ held[i].out[1].state[k] = stored(KindOf(held[i].id), k)
                    /\ \A o \in (DOMAIN held[i].arg) \ {k} :
                          held[i].out[1].state[o]
                            = normalizeValue(KindOf(held[i].id), o, held[i].arg[o])

\* C22 as stated: an Update with a value its rule cannot read succeeds,
\* applies the other keys and stores the zero or false value of the rule's
\* type under that key.
C22_MistypedStoresZero == MistypedStores(ZeroOf)

\* C22, amended: an Update with a value its rule cannot read succeeds, applies
\* the other keys and stores the rule's fallback under that key: the least
\* value of the range (0 for position and level, 10 for temperature), or
\* false.
C22_MistypedStoresFallback == MistypedStores(Fallback)

\* C22's case: a thermostat was given a string for its temperature together
\* with another key, and a toggle was given null for on.
C22_Witness ==
    /\ Len(held) = 2
    /\ Updated = {1, 2}
    /\ held[1].id = "thermo" /\ DOMAIN held[1].arg = {"temperature", "note"}
    /\ held[1].arg["temperature"].t = "string"
    /\ held[1].out[1].state["note"] = I(1)
    /\ held[2].id = "lamp" /\ "on" \in DOMAIN held[2].arg
    /\ held[2].arg["on"] = Nil

\* C21: a step in which a handler's unregister returns leaves its viewer out
\* of the viewer set with its connection closed, changes nothing else of the
\* viewer set and nothing of the other viewers, and changes nothing at all of
\* the viewer set when the viewer was already removed; and a viewer whose
\* unregister has returned is never in the viewer set or in a fan-out again
\* and receives nothing.
C21_UnregisterIdempotent ==
    [][ /\ \A v \in Viewers :
              (vpc[v] # "done" /\ vpc'[v] = "done" /\ hpc' # "panic")
              => /\ clients' = clients \ {v}
                 /\ conn'[v] = "closed"
                 /\ v \notin clients => clients' = clients
                 /\ \A u \in Viewers \ {v} :
                       /\ conn'[u] = conn[u] /\ peer'[u] = peer[u]
                       /\ recv'[u] = recv[u] /\ vpc'[u] = vpc[u]
        /\ \A v \in Viewers :
              vpc[v] = "done"
              => /\ v \notin clients' /\ v \notin htodo' /\ hcur' # v
                 /\ recv'[v] = <<>> /\ conn'[v] = "closed"
      ]_vars

\* C21's case: broadcastMessage removed a viewer after a failed write, the
\* viewer's handler then returned through unregister, and the next
\* notification went to the other viewer, who is still connected.
C21_Witness ==
    \E v, u \in Viewers :
        /\ v \in dropped /\ vpc[v] = "done"
        /\ hpc = "recv" /\ Len(fanned) = 2
        /\ u \in clients /\ conn[u] = "open"
        /\ HasUpdate(u, fanned[2])

\* C23: a goroutine that is at the send on the broadcast channel, or at or
\* inside a WriteJSON on a viewer connection, holds Store.mu in no mode (the
\* dispatch loop never takes Store.mu at all).
C23_StoreLockReleasedAtFanout ==
    /\ \A v \in Viewers :
          vpc[v] \in {"send", "sending", "reply", "replying", "enqueue"}
          => storeMu[v] = "none"
    /\ \A r \in RestCallers : rpc[r] = "enqueue" => storeMu[r] = "none"

\* C23's case: a REST handler is at its send on the broadcast channel and a
\* viewer's handler is inside a connection write while another handler holds
\* Store.mu for its Update.
C23_Witness ==
    \E v, u \in Viewers, r \in RestCallers :
        /\ rpc[r] = "enqueue"
        /\ vpc[v] = "sending" /\ writing[v]["handler"] = "in"
        /\ vpc[u] = "locked" /\ storeMu[u] = "Lock"

\* C24: on no connection are the viewer's handler and the dispatch loop both
\* inside a WriteJSON.
C24_OneWriterPerConnection ==
    \A v \in Viewers :
        ~(writing[v]["handler"] # "out" /\ writing[v]["hub"] # "out")

\* the seq of each message of a sequence, and of the updates a viewer has
\* received, in the order received
SeqsOf(msgs) == [i \in 1..Len(msgs) |-> msgs[i].seq]
IsUpdate(m) == m.type = "update"
UpdateSeqs(v) == SeqsOf(SelectSeq(recv[v], IsUpdate))

\* s is t[i..j] for some i, j
IsRunOf(s, t) ==
    \E i \in 1..(Len(t) + 1) :
        /\ i + Len(s) - 1 <= Len(t)
        /\ s = SubSeq(t, i, i + Len(s) - 1)

\* C25: the broadcast channel holds at most 32 notifications; the dispatch
\* loop takes them in the order they were sent on the channel; every viewer
\* the current fan-out has written to and kept has the notification as its
\* latest update, and the updates a viewer has received are a run of the
\* enqueue order without a gap (so two viewers connected across the same
\* fan-outs have received the same sequence).
C25_QueueBoundedFifo ==
    /\ Len(broadcast) <= BroadcastCap
    /\ hpc # "panic"
       => enqueued = fanned \o (IF hpc = "fanout" THEN <<hmsg.seq>> ELSE <<>>)
                            \o SeqsOf(broadcast)
    /\ hpc = "fanout"
       => \A c \in clients \ htodo :
             /\ UpdateSeqs(c) # <<>>
             /\ UpdateSeqs(c)[Len(UpdateSeqs(c))] = hmsg.seq
    /\ \A c \in clients : IsRunOf(UpdateSeqs(c), enqueued)

\* C7, with connection writes as intervals: in the first fan-out, once a
\* viewer has been removed for a failed write, every viewer the fan-out has
\* written to and kept has the notification.
C7_OthersStillNotified ==
    (hpc = "fanout" /\ fanned = <<>> /\ dropped # {})
    => \A c \in clients \ htodo : HasUpdate(c, hmsg.seq)

\* C19, with connection writes as intervals: when the reply to a message of
\* another type or without an id returns on a connection that is open to a
\* peer that reads, the viewer has received that one error and its handler
\* is back at its read loop.
C19_RejectedRepliedAndKept ==
    [][ \A v \in Viewers :
            (/\ vpc[v] = "replying" /\ vpc'[v] # "replying"
             /\ vupd[v].type = "error"
             /\ vupd[v].error \in {"unsupported message type", "missing device id"}
             /\ WriteOk(v))
            => /\ vpc'[v] = "read"
               /\ conn'[v] = "open"
               /\ recv'[v] = Append(recv[v], vupd[v])
      ]_vars

=============================================================================
